---- MODULE Spec2Model ----
(***************************************************************************)
(* Model of the batting-setup evaluator of backend_deploy/server.py:       *)
(* analyze_pose (keypoint frame, the three gates, the rule evaluator, the  *)
(* default filling) and coach_rewrite (the rewrite collaborator with its   *)
(* fallback).                                                              *)
(*                                                                         *)
(* Numbers.  Coordinates are pixels (integers).  Scores are hundredths, so *)
(* 0.35 is 35 and 0.30 is 30.  The code's floats are modelled by exact     *)
(* arithmetic: a quantity the code halves (a midpoint) is carried doubled, *)
(* a normalised distance hypot(dx, dy) / sw is carried as the triple       *)
(* (dx, dy, sw) and compared with a threshold p/q by cross-multiplying     *)
(* squares, and an angle is carried as the dot and cross product of its    *)
(* two rays and compared with a threshold through its cotangent.           *)
(***************************************************************************)
EXTENDS Integers, Sequences, FiniteSets, TLC

\* Python's None (an Optional score left out, an undefined shoulder width).
None == -1

Abs(v) == IF v < 0 THEN 0 - v ELSE v

\* Python truthiness of a number-or-None: None and 0 are falsy.
Falsy(v) == v = None \/ v = 0

RECURSIVE GCD(_, _)
GCD(a, b) == IF b = 0 THEN a ELSE GCD(b, a % b)

\* floor of the square root of n >= 0, by bisection on [lo, hi).
RECURSIVE SqrtBetween(_, _, _)
SqrtBetween(n, lo, hi) ==
  IF hi - lo <= 1 THEN lo
  ELSE LET mid == (lo + hi) \div 2
       IN IF mid * mid <= n THEN SqrtBetween(n, mid, hi)
                            ELSE SqrtBetween(n, lo, mid)

ISqrt(n) == SqrtBetween(n, 0, 46341)

(***************************************************************************)
(* Utility functions                                                       *)
(***************************************************************************)

\* A float coordinate is a whole number w or, when w = 0, t times 1e-170:
\* small enough that the product of two such numbers underflows to 0.0 and
\* that adding one to a whole number other than 0 leaves the whole number.
Fl(w, t) == [w |-> w, t |-> t]

\* a - b in floats.
Sub(a, b) == Fl(a.w - b.w, IF a.w - b.w = 0 THEN a.t - b.t ELSE 0)

\* The angle ABC at B as (zero, raises, dot, cross): zero is the 0.0
\* returned when a ray has no length; raises is the ZeroDivisionError of
\* dot / (magBA * magBC) when both lengths are nonzero and their product
\* underflows to 0.0; otherwise the angle is acos(dot / (|BA| |BC|)), whose
\* cotangent is dot / cross with cross = |BA x BC| >= 0.  A ray that has a
\* whole part keeps only it (math.hypot and the products lose the rest).
calculate_angle(ax, ay, bx, by, cx, cy) ==
  LET BAx == Sub(ax, bx)
      BAy == Sub(ay, by)
      BCx == Sub(cx, bx)
      BCy == Sub(cy, by)
      tinyBA == BAx.w = 0 /\ BAy.w = 0
      tinyBC == BCx.w = 0 /\ BCy.w = 0
      vBAx == IF tinyBA THEN BAx.t ELSE BAx.w
      vBAy == IF tinyBA THEN BAy.t ELSE BAy.w
      vBCx == IF tinyBC THEN BCx.t ELSE BCx.w
      vBCy == IF tinyBC THEN BCy.t ELSE BCy.w
      dot == vBAx * vBCx + vBAy * vBCy
      magBA2 == vBAx * vBAx + vBAy * vBAy
      magBC2 == vBCx * vBCx + vBCy * vBCy
  IN IF magBA2 = 0 \/ magBC2 = 0
       THEN [zero |-> TRUE, raises |-> FALSE, dot |-> 0, cross |-> 0]
       ELSE [zero |-> FALSE, raises |-> tinyBA /\ tinyBC, dot |-> dot,
             cross |-> Abs(vBAx * vBCy - vBAy * vBCx)]

\* 1000 * cot(deg) for the four angle thresholds of the rules.
Cot1000(deg) ==
  CASE deg = 60 -> 577
    [] deg = 65 -> 466
    [] deg = 150 -> 0 - 1732
    [] deg = 155 -> 0 - 2145

\* ang >= deg, for deg one of the thresholds (0 < deg < 180).
AngleGE(ang, deg) ==
  IF ang.zero THEN FALSE
  ELSE IF ang.cross = 0 THEN ang.dot < 0
  ELSE 1000 * ang.dot <= Cot1000(deg) * ang.cross

\* ang <= deg.  No angle between integer points is exactly 60, 65, 150 or
\* 155 degrees (their tangents are irrational), so <= is the negation of >=.
AngleLE(ang, deg) == ~AngleGE(ang, deg)

AngleGT(ang, deg) == AngleGE(ang, deg)

\* dict name -> {x, y, score}; the last occurrence of a name wins and a
\* None score becomes 0.0.  (x, tx) and (y, ty) are the two floats.
to_kp_map(kps) ==
  [n \in {kps[i].name : i \in DOMAIN kps} |->
     LET last == CHOOSE i \in DOMAIN kps :
                   /\ kps[i].name = n
                   /\ \A j \in DOMAIN kps : kps[j].name = n => j <= i
     IN [x |-> kps[last].x, y |-> kps[last].y,
         tx |-> kps[last].tx, ty |-> kps[last].ty,
         score |-> IF Falsy(kps[last].score) THEN 0 ELSE kps[last].score]]

(***************************************************************************)
(* analyze_pose: helpers                                                   *)
(***************************************************************************)

has(m, names) == names \subseteq DOMAIN m

\* score_ok with > for >=: a score equal to the threshold fails.
score_ok_strict(m, name, min_score) ==
  name \in DOMAIN m /\ m[name].score > min_score

score_ok(m, name, min_score) ==
  name \in DOMAIN m /\ m[name].score >= min_score

\* the names (in order) that are absent or below min_score.
all_scores_ok(m, names, min_score) ==
  SelectSeq(names, LAMBDA n : ~score_ok(m, n, min_score))

shoulder_width(m) ==
  IF has(m, {"left_shoulder", "right_shoulder"})
    THEN LET w == Abs(m["right_shoulder"].x - m["left_shoulder"].x)
         IN IF Falsy(w) THEN None ELSE w
    ELSE None

angle(m, a, b, c) ==
  calculate_angle(Fl(m[a].x, m[a].tx), Fl(m[a].y, m[a].ty),
                  Fl(m[b].x, m[b].tx), Fl(m[b].y, m[b].ty),
                  Fl(m[c].x, m[c].tx), Fl(m[c].y, m[c].ty))

\* hypot(dx, dy) / sw as the triple (dx, dy, sw), or None.
norm_dist(dx, dy, sw) ==
  IF Falsy(sw) THEN [none |-> TRUE, dx |-> 0, dy |-> 0, sw |-> 1]
  ELSE [none |-> FALSE, dx |-> dx, dy |-> dy, sw |-> sw]

\* d <= p/q and d > p/q for a normalised distance d that is not None.
DistLE(d, p, q) == (d.dx * d.dx + d.dy * d.dy) * q * q <= p * p * d.sw * d.sw
DistGT(d, p, q) == ~DistLE(d, p, q)

\* d divided through by the common factor of its three parts (same value).
Reduced(d) ==
  LET g == GCD(GCD(Abs(d.dx), Abs(d.dy)), d.sw)
  IN [dx |-> d.dx \div g, dy |-> d.dy \div g, sw |-> d.sw \div g]

\* a - b > p/q for normalised distances a, b (not None), p, q > 0:
\* q sb |a| > q sa |b| + p sa sb, squared twice with the signs kept.
DiffGT(a, b, p, q) ==
  LET ra == Reduced(a)
      rb == Reduced(b)
      P == q * q * rb.sw * rb.sw * (ra.dx * ra.dx + ra.dy * ra.dy)
      Q == q * q * ra.sw * ra.sw * (rb.dx * rb.dx + rb.dy * rb.dy)
      c == p * ra.sw * rb.sw
      M == P - Q - c * c
  IN M > 0 /\ ISqrt(4 * c * c * Q) < M

\* abs(a - b) > p/q
AbsDiffGT(a, b, p, q) == DiffGT(a, b, p, q) \/ DiffGT(b, a, p, q)

\* a > b
DistGreater(a, b) ==
  LET ra == Reduced(a)
      rb == Reduced(b)
  IN (ra.dx * ra.dx + ra.dy * ra.dy) * rb.sw * rb.sw
       > (rb.dx * rb.dx + rb.dy * rb.dy) * ra.sw * ra.sw

(***************************************************************************)
(* analyze_pose: the request and the handedness-aware role binding         *)
(***************************************************************************)

\* (body.handedness or "right").lower().strip(), on the handedness strings
\* of the model.
hand(b) ==
  CASE b.handedness = "" -> "right"
    [] b.handedness = " Left" -> "left"
    [] OTHER -> b.handedness

startswith_l(h) == h \in {"left", "l", "lefty"}

back_sh(b) == IF startswith_l(hand(b)) THEN "left_shoulder" ELSE "right_shoulder"
back_el(b) == IF startswith_l(hand(b)) THEN "left_elbow" ELSE "right_elbow"
back_wr(b) == IF startswith_l(hand(b)) THEN "left_wrist" ELSE "right_wrist"
front_sh(b) == IF startswith_l(hand(b)) THEN "right_shoulder" ELSE "left_shoulder"
front_el(b) == IF startswith_l(hand(b)) THEN "right_elbow" ELSE "left_elbow"
front_wr(b) == IF startswith_l(hand(b)) THEN "right_wrist" ELSE "left_wrist"

\* The locals analyze_pose sets up from its request: the two keypoint maps
\* (ref is empty when no reference keypoints came) and the handedness.
Locals(request) ==
  [handedness |-> request.handedness,
   live |-> to_kp_map(request.live_keypoints),
   ref |-> IF request.ref_keypoints # <<>> THEN to_kp_map(request.ref_keypoints) ELSE <<>>]

\* In what follows b is Locals(body).
live(b) == b.live
ref(b) == b.ref

(***************************************************************************)
(* The gates                                                               *)
(***************************************************************************)

required(b) == <<front_sh(b), back_sh(b), front_wr(b), back_wr(b)>>
missing_conf(b) == all_scores_ok(live(b), required(b), 35)
live_sw(b) == shoulder_width(live(b))

\* gate 1 on the scores alone, the shoulder width left unchecked.
Gate1FailsScoresOnly(b) == missing_conf(b) # <<>>

Gate1Fails(b) == Falsy(live_sw(b)) \/ missing_conf(b) # <<>>

\* elbow_missing that is only set when both elbows are missing.
elbow_missing_both(b) ==
  IF Len(all_scores_ok(live(b), <<front_el(b), back_el(b)>>, 30)) = 2
    THEN <<front_el(b), back_el(b)>>
    ELSE <<>>

elbow_missing(b) == all_scores_ok(live(b), <<front_el(b), back_el(b)>>, 30)

Gate2Fails(b) == live_sw(b) < 40

\* twice hands_x, hands_y (the wrist midpoint).
hands_x2(b) == live(b)[back_wr(b)].x + live(b)[front_wr(b)].x
hands_y2(b) == live(b)[back_wr(b)].y + live(b)[front_wr(b)].y

\* hand_to_back_sh measured from the front shoulder (the roles mixed up).
hand_to_front_sh(b) ==
  norm_dist(hands_x2(b) - 2 * live(b)[front_sh(b)].x,
            hands_y2(b) - 2 * live(b)[front_sh(b)].y,
            2 * live_sw(b))

\* norm_dist(dx_h_bs, dy_h_bs, live_sw), all three parts doubled.
hand_to_back_sh(b) ==
  norm_dist(hands_x2(b) - 2 * live(b)[back_sh(b)].x,
            hands_y2(b) - 2 * live(b)[back_sh(b)].y,
            2 * live_sw(b))

Gate3Fails(b) == ~hand_to_back_sh(b).none /\ DistGT(hand_to_back_sh(b), 5, 4)

Bundle(pi, pa, ii, ia) ==
  [Positives |-> [issue |-> pi, advice |-> pa],
   Improvements |-> [issue |-> ii, advice |-> ia]]

Gate1Bundle ==
  Bundle("not enough reliable joints yet",
         "No worries - you're getting set up.",
         "upper-body joints not confidently detected",
         "I need to clearly see both shoulders and both wrists. "
           \o "Step back, raise the camera slightly, and keep your arms in frame.")

Gate2Bundle ==
  Bundle("camera is running",
         "Good - I can see you, but not enough of your upper body yet.",
         "too much cropping / too far away",
         "Move closer OR adjust framing so your shoulders and wrists are clearly visible.")

Gate3Bundle ==
  Bundle("you're in frame",
         "Nice - I can see you clearly.",
         "not in batting setup yet",
         "Get into your batting stance and set your hands near your back shoulder. "
           \o "Stand sideways to the camera with the webcam in front of you pointed at your chest, "
           \o "then say Start or Go.")

\* The gate that ends the evaluation of request b, or "pass".
GateResult(b) ==
  IF Gate1Fails(b) THEN "gate1"
  ELSE IF Gate2Fails(b) THEN "gate2"
  ELSE IF Gate3Fails(b) THEN "gate3"
  ELSE "pass"

GateBundle(g) ==
  CASE g = "gate1" -> Gate1Bundle
    [] g = "gate2" -> Gate2Bundle
    [] g = "gate3" -> Gate3Bundle

(***************************************************************************)
(* The rule evaluator.  Each rule is the pair (pos, imp) of what it        *)
(* appends to positives and to improvements.                               *)
(***************************************************************************)

add_pos(msg) == [pos |-> <<msg>>, imp |-> <<>>]
add_imp(part, issue, advice) ==
  [pos |-> <<>>, imp |-> <<part \o ": " \o issue \o " - " \o advice>>]
Nothing == [pos |-> <<>>, imp |-> <<>>]
Both(r1, r2) == [pos |-> r1.pos \o r2.pos, imp |-> r1.imp \o r2.imp]

VisibilityRule(b) ==
  IF elbow_missing(b) # <<>>
    THEN add_imp("Visibility", "elbows not clearly visible",
                 "Try better lighting and keep both elbows in frame for more accurate feedback.")
    ELSE Nothing

\* 1) Hands compact
wrist_sep(b) ==
  norm_dist(live(b)[back_wr(b)].x - live(b)[front_wr(b)].x,
            live(b)[back_wr(b)].y - live(b)[front_wr(b)].y,
            live_sw(b))

GripRule(b) ==
  IF ~wrist_sep(b).none
    THEN IF DistLE(wrist_sep(b), 9, 20)
           THEN add_pos("Grip: hands look reasonably compact/stacked (good for quickness).")
           ELSE add_imp("Hands (Grip)", "hands too far apart",
                        "Bring your hands closer together (stacked grip). Compact hands = quicker to the ball.")
    ELSE Nothing

\* 2) Hands near back shoulder
HandSetRule(b) ==
  IF ~hand_to_back_sh(b).none
    THEN IF DistLE(hand_to_back_sh(b), 9, 10)
           THEN add_pos("Hand set: hands are fairly close to the back shoulder (compact/quick).")
           ELSE add_imp("Hand Set (Compact)", "hands set too far from back shoulder",
                        "Move your hands closer to your back shoulder. Compact hand set helps you get to the ball faster.")
    ELSE Nothing

\* forward drift from shoulder midpoint: abs(hands_x - mid_sh_x) / live_sw
\* <= 0.90, with hands_x and mid_sh_x doubled.
mid_sh_x2(b) == live(b)["left_shoulder"].x + live(b)["right_shoulder"].x

ForwardDriftRule(b) ==
  IF 10 * Abs(hands_x2(b) - mid_sh_x2(b)) <= 9 * 2 * live_sw(b)
    THEN add_pos("Hands: not drifting too far away from your torso line (good).")
    ELSE add_imp("Hand Set (Compact)", "hands drifting away from torso",
                 "Keep hands closer to your chest/back shoulder line for a quick, compact move.")

\* 3) Back elbow slot: el_height = (back_sh_y - back_el_y) / live_sw, as
\* its numerator over live_sw.
el_height_num(b) == live(b)[back_sh(b)].y - live(b)[back_el(b)].y

BackElbowHigh(b) ==
  IF 100 * el_height_num(b) > 10 * live_sw(b)
    THEN add_imp("Back Elbow", "back elbow too high (flying)",
                 "Lower the back elbow slightly into the slot. Too high can make you longer to the ball.")
    ELSE Nothing

\* the "too low" branch with the sign of its threshold lost (< 0.35).
BackElbowLowUnsigned(b) ==
  IF 100 * el_height_num(b) < 35 * live_sw(b)
    THEN add_imp("Back Elbow", "back elbow too low",
                 "Raise the back elbow a bit. Keep it relaxed and ready - not pinned down.")
    ELSE Nothing

BackElbowLow(b) ==
  IF 100 * el_height_num(b) < (0 - 35) * live_sw(b)
    THEN add_imp("Back Elbow", "back elbow too low",
                 "Raise the back elbow a bit. Keep it relaxed and ready - not pinned down.")
    ELSE Nothing

BackElbowSlotRule(b) ==
  IF score_ok(live(b), back_el(b), 30)
    THEN IF /\ (0 - 35) * live_sw(b) <= 100 * el_height_num(b)
            /\ 100 * el_height_num(b) <= 10 * live_sw(b)
           THEN add_pos("Back elbow: looks in a good slot (not flying, not pinned).")
           ELSE Both(BackElbowHigh(b), BackElbowLow(b))
    ELSE Nothing

\* 4) Elbow bend
back_elbow_ang(b) == angle(live(b), back_sh(b), back_el(b), back_wr(b))

\* the back-arm rule with its elif read as a second if: a comfortable
\* bend is praised and then also judged "too collapsed".
BackArmRuleSecondIf(b) ==
  IF score_ok(live(b), back_el(b), 30)
    THEN Both(IF AngleGE(back_elbow_ang(b), 65) /\ AngleLE(back_elbow_ang(b), 150)
                THEN add_pos("Back arm: comfortable bend (good for a quick/compact launch).")
                ELSE Nothing,
              IF AngleGT(back_elbow_ang(b), 150)
                THEN add_imp("Back Arm", "back arm too straight",
                             "Relax the back arm; keep a soft bend so you can launch quickly.")
                ELSE add_imp("Back Arm", "back arm too collapsed",
                             "Open your back elbow slightly. Too tight can restrict a quick turn."))
    ELSE Nothing

BackArmRule(b) ==
  IF score_ok(live(b), back_el(b), 30)
    THEN IF AngleGE(back_elbow_ang(b), 65) /\ AngleLE(back_elbow_ang(b), 150)
           THEN add_pos("Back arm: comfortable bend (good for a quick/compact launch).")
           ELSE IF AngleGT(back_elbow_ang(b), 150)
                  THEN add_imp("Back Arm", "back arm too straight",
                               "Relax the back arm; keep a soft bend so you can launch quickly.")
                  ELSE add_imp("Back Arm", "back arm too collapsed",
                               "Open your back elbow slightly. Too tight can restrict a quick turn.")
    ELSE Nothing

front_elbow_ang(b) == angle(live(b), front_sh(b), front_el(b), front_wr(b))

FrontArmRule(b) ==
  IF score_ok(live(b), front_el(b), 30)
    THEN IF AngleGE(front_elbow_ang(b), 60) /\ AngleLE(front_elbow_ang(b), 155)
           THEN add_pos("Front arm: not locked out (good).")
           ELSE IF AngleGT(front_elbow_ang(b), 155)
                  THEN add_imp("Front Arm", "front arm locked out",
                               "Soften the front elbow a bit. A relaxed front arm helps you stay compact.")
                  ELSE add_imp("Front Arm", "front arm too tucked",
                               "Give the front arm a little room. Don't let it collapse tight into the body.")
    ELSE Nothing

\* 5) Compact triangle
elbow_to_back_sh(b) ==
  norm_dist(live(b)[back_el(b)].x - live(b)[back_sh(b)].x,
            live(b)[back_el(b)].y - live(b)[back_sh(b)].y,
            live_sw(b))

\* the compact-triangle rule run for any back elbow that is in the frame.
CompactTriangleAnyScore(b) ==
  IF score_ok(live(b), back_el(b), 0) /\ ~elbow_to_back_sh(b).none
    THEN IF DistLE(elbow_to_back_sh(b), 17, 20)
           THEN add_pos("Compact triangle: back elbow stays reasonably close (fast hands setup).")
           ELSE add_imp("Compact Triangle", "back elbow drifting away",
                        "Keep the back elbow closer to the body/shoulder. Compact triangle = faster hands.")
    ELSE Nothing

CompactTriangleRule(b) ==
  IF score_ok(live(b), back_el(b), 30) /\ ~elbow_to_back_sh(b).none
    THEN IF DistLE(elbow_to_back_sh(b), 17, 20)
           THEN add_pos("Compact triangle: back elbow stays reasonably close (fast hands setup).")
           ELSE add_imp("Compact Triangle", "back elbow drifting away",
                        "Keep the back elbow closer to the body/shoulder. Compact triangle = faster hands.")
    ELSE Nothing

\* the shoulder-level rule without abs(): a signed difference.
ShoulderLevelSigned(b) ==
  IF live(b)["left_shoulder"].y - live(b)["right_shoulder"].y <= 25
    THEN add_pos("Shoulders: fairly level (good foundation).")
    ELSE add_imp("Shoulders", "shoulders not level",
                 "Try to keep shoulders more level. Big tilt can change your swing path and timing.")

\* 6) Shoulder level
ShoulderLevelRule(b) ==
  IF Abs(live(b)["left_shoulder"].y - live(b)["right_shoulder"].y) <= 25
    THEN add_pos("Shoulders: fairly level (good foundation).")
    ELSE add_imp("Shoulders", "shoulders not level",
                 "Try to keep shoulders more level. Big tilt can change your swing path and timing.")

\* 7) Reference comparison (optional)
ref_sw(b) == IF ref(b) # <<>> THEN shoulder_width(ref(b)) ELSE None

RefValid(b) ==
  /\ ref(b) # <<>>
  /\ ~Falsy(ref_sw(b))
  /\ all_scores_ok(ref(b), required(b), 30) = <<>>

\* live_h_dist and ref_h_dist, each with its three parts doubled.
live_h_dist(b) ==
  norm_dist(hands_x2(b) - 2 * live(b)[back_sh(b)].x,
            hands_y2(b) - 2 * live(b)[back_sh(b)].y,
            2 * live_sw(b))

ref_h_dist(b) ==
  norm_dist(ref(b)[back_wr(b)].x + ref(b)[front_wr(b)].x - 2 * ref(b)[back_sh(b)].x,
            ref(b)[back_wr(b)].y + ref(b)[front_wr(b)].y - 2 * ref(b)[back_sh(b)].y,
            2 * ref_sw(b))

\* the reference rule with its else bound to the outer if: the positive
\* whenever the difference is within 0.20.
ReferenceRuleOuterElse(b) ==
  IF RefValid(b)
    THEN IF AbsDiffGT(live_h_dist(b), ref_h_dist(b), 1, 5)
           THEN IF DistGreater(live_h_dist(b), ref_h_dist(b))
                  THEN add_imp("Reference Match", "hands set farther than reference",
                               "Bring hands closer to the back shoulder to match the compact reference.")
                  ELSE Nothing
           ELSE add_pos("Reference match: hands are at least as compact as the reference (nice).")
    ELSE Nothing

ReferenceRule(b) ==
  IF RefValid(b)
    THEN IF AbsDiffGT(live_h_dist(b), ref_h_dist(b), 1, 5)
           THEN IF DistGreater(live_h_dist(b), ref_h_dist(b))
                  THEN add_imp("Reference Match", "hands set farther than reference",
                               "Bring hands closer to the back shoulder to match the compact reference.")
                  ELSE add_pos("Reference match: hands are at least as compact as the reference (nice).")
           ELSE Nothing
    ELSE Nothing

\* The first rule (by its place in Rules) whose calculate_angle call
\* raises, or 0: nothing in analyze_pose catches the exception.
RaisingRule(b) ==
  IF score_ok(live(b), back_el(b), 30) /\ back_elbow_ang(b).raises THEN 6
  ELSE IF score_ok(live(b), front_el(b), 30) /\ front_elbow_ang(b).raises THEN 7
  ELSE 0

\* The rules in the order analyze_pose runs them.
Rules(b) ==
  <<VisibilityRule(b), GripRule(b), HandSetRule(b), ForwardDriftRule(b),
    BackElbowSlotRule(b), BackArmRule(b), FrontArmRule(b),
    CompactTriangleRule(b), ShoulderLevelRule(b), ReferenceRule(b)>>

RECURSIVE Collect(_, _)
Collect(rs, i) ==
  IF i = 0 THEN Nothing ELSE Both(Collect(rs, i - 1), rs[i])

RuleOutcome(b) == Collect(Rules(b), Len(Rules(b)))

DefaultPositive ==
  "You're in frame and the camera is tracking. Good start - now let's tighten the setup."
DefaultImprovement ==
  "All good: compact upper-body setup looks solid - keep hands quiet near the back shoulder and stay quick/compact."

(***************************************************************************)
(* coach_rewrite.  The model's reply is one of: the call raises; the       *)
(* content is empty (None or ""), is not JSON, is a JSON array, or is a    *)
(* JSON object whose keys and string values are given.                     *)
(***************************************************************************)

\* str.strip() on the strings of the model's replies.
strip(s) ==
  CASE s = "  " -> ""
    [] s = " Nice balance. " -> "Nice balance."
    [] s = " Stay loose.  " -> "Stay loose."
    [] OTHER -> s

\* data.get(key, "")
get(data, key) == IF key \in data.keys THEN data.val[key] ELSE ""

\* an except clause that only catches the failure of the call itself.
RewriteFailsCallOnly(reply) == reply.kind = "raises"

\* TRUE when the try block raises: the create call itself, json.loads on
\* text that is not JSON, or .get on a value that is not a dict.
RewriteFails(reply) == reply.kind \in {"raises", "empty", "not_json", "json_array"}

coach_rewrite(handedness, pos, imp, reply) ==
  IF RewriteFails(reply)
    THEN [positive |-> IF pos # <<>> THEN pos[1] ELSE "Nice work - you're in a good setup.",
          improvement |-> IF imp # <<>> THEN imp[1]
                          ELSE "Hold that stance and say Start when you're ready."]
    ELSE [positive |-> IF strip(get(reply, "positive")) # ""
                         THEN strip(get(reply, "positive"))
                         ELSE "Nice work - you're in a good setup.",
          improvement |-> IF strip(get(reply, "improvement")) # ""
                            THEN strip(get(reply, "improvement"))
                            ELSE "Hold that stance and say Start when you're ready."]

(***************************************************************************)
(* Requests.  A request is (handedness, live_keypoints, ref_keypoints),    *)
(* each keypoint list a sequence of KeypointItem records.                  *)
(***************************************************************************)

MaxWristStep == 2

Pt(px, py) == [x |-> px, y |-> py, tx |-> 0, ty |-> 0]

\* the point (tx * 1e-170, ty * 1e-170), next to the origin.
TinyPt(tx, ty) == [x |-> 0, y |-> 0, tx |-> tx, ty |-> ty]
Seen(s) == [here |-> TRUE, score |-> s]
Absent == [here |-> FALSE, score |-> 0]

Item(name, p, c) ==
  [name |-> name, x |-> p.x, y |-> p.y, tx |-> p.tx, ty |-> p.ty,
   score |-> c.score, here |-> c.here]

\* the keypoint list of the joints that are there, in a fixed order.
Keypoints(items) ==
  LET kept == SelectSeq(items, LAMBDA k : k.here)
  IN [i \in 1..Len(kept) |->
        [name |-> kept[i].name, x |-> kept[i].x, y |-> kept[i].y,
         tx |-> kept[i].tx, ty |-> kept[i].ty, score |-> kept[i].score]]

Frame(ls, rs, le, re, lw, rw, cls, crs, cle, cre, clw, crw) ==
  Keypoints(<<Item("left_shoulder", ls, cls), Item("right_shoulder", rs, crs),
              Item("left_elbow", le, cle), Item("right_elbow", re, cre),
              Item("left_wrist", lw, clw), Item("right_wrist", rw, crw)>>)

Request(h, lv, rf) == [handedness |-> h, live_keypoints |-> lv, ref_keypoints |-> rf]

Hands == {"right", "left"}

\* Geometry: every joint confident, the six joints on a 20-pixel lattice.
WristPoints == {Pt(100 + 40 * i, py) : i \in 0..MaxWristStep, py \in {100, 140}}
ElbowPoints == {Pt(px, py) : px \in {140, 200}, py \in {80, 120}}

GeometryRequests ==
  {Request(h, Frame(Pt(100, ly), Pt(rx, 100), le, re, lw, rw,
                    Seen(100), Seen(100), Seen(100), Seen(100), Seen(100), Seen(100)),
           <<>>) :
     h \in Hands, ly \in {100, 140}, rx \in {100, 120, 140, 200},
     le \in ElbowPoints, re \in ElbowPoints, lw \in WristPoints, rw \in WristPoints}

\* Confidence: two fixed poses (shoulder width 100 and 20), every required
\* joint absent, unscored, or scored around 0.35, every elbow around 0.30.
RequiredScores == {Absent, Seen(None), Seen(10), Seen(34), Seen(35)}
ElbowScores == {Absent, Seen(29), Seen(30)}

ConfidenceRequests ==
  {Request(h, Frame(Pt(100, 100), Pt(100 + sw, 100), Pt(100, 140), Pt(100 + sw, 140),
                    Pt(120, 110), Pt(120, 120),
                    cls, crs, cle, cre, clw, crw),
           <<>>) :
     h \in Hands, sw \in {20, 100},
     cls \in RequiredScores, crs \in RequiredScores,
     clw \in RequiredScores, crw \in RequiredScores,
     cle \in ElbowScores, cre \in ElbowScores}

\* Reference: a live frame of shoulder width 40 with both hands at one
\* point, against reference frames of width 0, 40 and 80 with one joint
\* absent or scored around 0.30, and against no reference.
RefScores == {Absent, Seen(29), Seen(30), Seen(100)}

RefFrames ==
  {<<>>} \cup
  {Frame(Pt(0, 0), Pt(rsw, 0), Pt(0, 40), Pt(rsw, 40), Pt(rwx, 0), Pt(rwx, 0),
         IF weak = "left_shoulder" THEN c ELSE Seen(100),
         IF weak = "right_shoulder" THEN c ELSE Seen(100),
         Absent, Absent,
         IF weak = "left_wrist" THEN c ELSE Seen(100),
         IF weak = "right_wrist" THEN c ELSE Seen(100)) :
     rsw \in {0, 40, 80}, rwx \in {0, 20, 40, 60},
     weak \in {"left_shoulder", "right_shoulder", "left_wrist", "right_wrist"},
     c \in RefScores}

ReferenceRequests ==
  {Request(h, Frame(Pt(100, 100), Pt(140, 100), Pt(100, 120), Pt(140, 120),
                    Pt(wx, 100), Pt(wx, 100),
                    Seen(100), Seen(100), Seen(100), Seen(100), Seen(100), Seen(100)),
           rf) :
     h \in Hands, wx \in {100, 120, 140, 160}, rf \in RefFrames}

\* Partial visibility: every required joint confident, at least one elbow
\* absent or scored 0.29, over a few hand positions.
PartialWrists == {Pt(100, 100), Pt(140, 140), Pt(180, 100)}

PartialRequests ==
  {Request(h, Frame(Pt(100, ly), Pt(rx, 100), Pt(140, 120), Pt(200, 80), lw, rw,
                    Seen(100), Seen(100), cle, cre, Seen(100), Seen(100)),
           <<>>) :
     h \in Hands, ly \in {100, 140}, rx \in {140, 200},
     lw \in PartialWrists, rw \in PartialWrists,
     cle \in ElbowScores, cre \in ElbowScores}

\* Close joints: the left arm at or within a few 1e-170 of the left
\* shoulder (the origin), with or without a stale first left_elbow entry.
CloseElbows == {TinyPt(0, 0), TinyPt(1, 0), TinyPt(1, 1), Pt(0, 40)}
CloseWrists == {TinyPt(0, 0), TinyPt(2, 0), TinyPt(0, 1), Pt(40, 40)}
StaleElbow == Keypoints(<<Item("left_elbow", Pt(50, 50), Seen(10))>>)

CloseRequests ==
  {Request(h, stale \o Frame(Pt(0, 0), Pt(100, 0), le, Pt(100, 40), lw, rw,
                             Seen(100), Seen(100), Seen(100), Seen(100), Seen(100), Seen(100)),
           <<>>) :
     h \in Hands, stale \in {<<>>, StaleElbow},
     le \in CloseElbows, lw \in CloseWrists, rw \in {Pt(0, 0), Pt(60, 20)}}

\* Wide frames: shoulder width 200 on a 100-pixel lattice, each wrist up to
\* 300 pixels from a shoulder.
FarPoints == {Pt(0, 100), Pt(200, 100), Pt(300, 100), Pt(500, 100), Pt(200, 400),
              Pt(0, 400), Pt(-100, 100)}

WideRequests ==
  {Request(h, Frame(Pt(0, 100), Pt(200, 100), Pt(0, 200), Pt(200, 140), lw, rw,
                    Seen(100), Seen(100), Seen(100), Seen(100), Seen(100), Seen(100)),
           <<>>) :
     h \in {"right", "left", "", " Left"}, lw \in FarPoints, rw \in FarPoints}

Requests ==
  GeometryRequests \cup ConfidenceRequests \cup ReferenceRequests \cup WideRequests
    \cup PartialRequests \cup CloseRequests

\* The replies of the external model.
PositiveFields == {"absent", " Nice balance. "}
ImprovementFields == {"  ", " Stay loose.  "}

Object(p, i) ==
  [kind |-> "json_object",
   keys |-> (IF p = "absent" THEN {} ELSE {"positive"})
              \cup (IF i = "absent" THEN {} ELSE {"improvement"}),
   val |-> [positive |-> p, improvement |-> i]]

NotAnObject(k) == [kind |-> k, keys |-> {}, val |-> [positive |-> "", improvement |-> ""]]

Replies ==
  {NotAnObject(k) : k \in {"raises", "empty", "not_json", "json_array"}}
    \cup {Object(p, i) : p \in PositiveFields, i \in ImprovementFields}

NoReply == NotAnObject("none")
NoBundle == Bundle("", "", "", "")
NoRewrite == [positive |-> "", improvement |-> ""]

(***************************************************************************)
(* One evaluation of analyze_pose, step by step.                           *)
(***************************************************************************)

VARIABLES body, pc, positives, improvements, reply, rewritten, response,
          rules_run, rewrite_calls, model_calls

vars == <<body, pc, positives, improvements, reply, rewritten, response,
          rules_run, rewrite_calls, model_calls>>

Init ==
  /\ body \in Requests
  /\ pc = "gate1"
  /\ positives = <<>>
  /\ improvements = <<>>
  /\ reply = NoReply
  /\ rewritten = NoRewrite
  /\ response = NoBundle
  /\ rules_run = 0
  /\ rewrite_calls = 0
  /\ model_calls = 0

Return(bundle) ==
  /\ response' = bundle
  /\ pc' = "done"

\* the framing check run before the confidence check.
Gate1AfterFraming ==
  /\ pc = "gate1"
  /\ IF ~Falsy(live_sw(Locals(body))) /\ live_sw(Locals(body)) < 40 THEN Return(Gate2Bundle)
     ELSE IF Gate1Fails(Locals(body)) THEN Return(Gate1Bundle)
     ELSE pc' = "gate2" /\ UNCHANGED response
  /\ UNCHANGED <<body, positives, improvements, reply, rewritten,
                 rules_run, rewrite_calls, model_calls>>

\* GATING 1: confidence
Gate1 ==
  /\ pc = "gate1"
  /\ IF Gate1Fails(Locals(body)) THEN Return(Gate1Bundle)
     ELSE pc' = "gate2" /\ UNCHANGED response
  /\ UNCHANGED <<body, positives, improvements, reply, rewritten,
                 rules_run, rewrite_calls, model_calls>>

\* GATING 2: too far / cropped
Gate2 ==
  /\ pc = "gate2"
  /\ IF Gate2Fails(Locals(body)) THEN Return(Gate2Bundle)
     ELSE pc' = "gate3" /\ UNCHANGED response
  /\ UNCHANGED <<body, positives, improvements, reply, rewritten,
                 rules_run, rewrite_calls, model_calls>>

\* GATING 3: stance check
Gate3 ==
  /\ pc = "gate3"
  /\ IF Gate3Fails(Locals(body)) THEN Return(Gate3Bundle)
     ELSE pc' = "rules" /\ UNCHANGED response
  /\ UNCHANGED <<body, positives, improvements, reply, rewritten,
                 rules_run, rewrite_calls, model_calls>>

\* Build feedback: the visibility note and rules 1) to 7), in order.
\* An exception of a rule leaves analyze_pose with no response ("raised").
EvaluateRules ==
  /\ pc = "rules"
  /\ IF RaisingRule(Locals(body)) # 0
       THEN /\ rules_run' = rules_run + RaisingRule(Locals(body))
            /\ pc' = "raised"
            /\ UNCHANGED <<positives, improvements>>
       ELSE /\ positives' = RuleOutcome(Locals(body)).pos
            /\ improvements' = RuleOutcome(Locals(body)).imp
            /\ rules_run' = rules_run + Len(Rules(Locals(body)))
            /\ pc' = "fill"
  /\ UNCHANGED <<body, reply, rewritten, response, rewrite_calls, model_calls>>

\* default filling that forgets the improvements list.
FillPositivesOnly ==
  /\ pc = "fill"
  /\ positives' = IF positives = <<>> THEN <<DefaultPositive>> ELSE positives
  /\ pc' = "rewrite"
  /\ UNCHANGED <<body, improvements, reply, rewritten, response, rules_run,
                 rewrite_calls, model_calls>>

\* if not positives / if not improvements: append the generic message.
FillDefaults ==
  /\ pc = "fill"
  /\ positives' = IF positives = <<>> THEN <<DefaultPositive>> ELSE positives
  /\ improvements' = IF improvements = <<>> THEN <<DefaultImprovement>> ELSE improvements
  /\ pc' = "rewrite"
  /\ UNCHANGED <<body, reply, rewritten, response, rules_run, rewrite_calls, model_calls>>

\* coach_rewrite with a second attempt after a failed one.
CoachRewriteRetry ==
  /\ pc = "rewrite"
  /\ \E r \in Replies :
       /\ reply' = r
       /\ rewritten' = coach_rewrite(body.handedness, positives, improvements, r)
       /\ model_calls' = model_calls + (IF RewriteFails(r) THEN 2 ELSE 1)
  /\ rewrite_calls' = rewrite_calls + 1
  /\ pc' = "respond"
  /\ UNCHANGED <<body, positives, improvements, response, rules_run>>

\* rewritten = coach_rewrite(body.handedness, positives, improvements):
\* one create call, answered by any of the replies.
CoachRewrite ==
  /\ pc = "rewrite"
  /\ \E r \in Replies :
       /\ reply' = r
       /\ rewritten' = coach_rewrite(body.handedness, positives, improvements, r)
  /\ rewrite_calls' = rewrite_calls + 1
  /\ model_calls' = model_calls + 1
  /\ pc' = "respond"
  /\ UNCHANGED <<body, positives, improvements, response, rules_run>>

Respond ==
  /\ pc = "respond"
  /\ Return(Bundle("Good job", rewritten.positive,
                   "One thing to work on", rewritten.improvement))
  /\ UNCHANGED <<body, positives, improvements, reply, rewritten,
                 rules_run, rewrite_calls, model_calls>>

Next ==
  \/ Gate1
  \/ Gate2
  \/ Gate3
  \/ EvaluateRules
  \/ FillDefaults
  \/ CoachRewrite
  \/ Respond

Spec == Init /\ [][Next]_vars

(***************************************************************************)
(* The properties.  What a property says about a request is stated on the  *)
(* request itself (the keypoint lists as received), not through the        *)
(* evaluator's own helpers.                                                *)
(***************************************************************************)

Listed(kps, n) == \E i \in DOMAIN kps : kps[i].name = n

Entry(kps, n) ==
  kps[CHOOSE i \in DOMAIN kps :
        kps[i].name = n /\ \A j \in DOMAIN kps : kps[j].name = n => j <= i]

\* n is in the list with a score of at least min (no score counts as 0).
Confident(kps, n, min) ==
  Listed(kps, n) /\ Entry(kps, n).score # None /\ Entry(kps, n).score >= min

BothShoulders(kps) == Listed(kps, "left_shoulder") /\ Listed(kps, "right_shoulder")

Width(kps) == Abs(Entry(kps, "right_shoulder").x - Entry(kps, "left_shoulder").x)

\* the width is undefined: a shoulder is missing or the two share their x.
WidthUndefined(kps) == ~BothShoulders(kps) \/ Width(kps) = 0

LeftHanded(b) == b.handedness \in {"left", " Left"}
BackShoulder(b) == IF LeftHanded(b) THEN "left_shoulder" ELSE "right_shoulder"
BackElbow(b) == IF LeftHanded(b) THEN "left_elbow" ELSE "right_elbow"
FrontElbow(b) == IF LeftHanded(b) THEN "right_elbow" ELSE "left_elbow"
BackWrist(b) == IF LeftHanded(b) THEN "left_wrist" ELSE "right_wrist"
FrontWrist(b) == IF LeftHanded(b) THEN "right_wrist" ELSE "left_wrist"

FourJoints == {"left_shoulder", "right_shoulder", "left_wrist", "right_wrist"}

FailsConfidence(b) ==
  \/ \E n \in FourJoints : ~Confident(b.live_keypoints, n, 35)
  \/ WidthUndefined(b.live_keypoints)

FailsFraming(b) == BothShoulders(b.live_keypoints) /\ Width(b.live_keypoints) < 40

\* the square of twice the distance from the wrist midpoint to the back
\* shoulder, and the square of the distance from the back wrist to it.
MidpointDist2x2(b) ==
  LET k == b.live_keypoints
      dx == Entry(k, BackWrist(b)).x + Entry(k, FrontWrist(b)).x - 2 * Entry(k, BackShoulder(b)).x
      dy == Entry(k, BackWrist(b)).y + Entry(k, FrontWrist(b)).y - 2 * Entry(k, BackShoulder(b)).y
  IN dx * dx + dy * dy

BackWristDist2(b) ==
  LET k == b.live_keypoints
      dx == Entry(k, BackWrist(b)).x - Entry(k, BackShoulder(b)).x
      dy == Entry(k, BackWrist(b)).y - Entry(k, BackShoulder(b)).y
  IN dx * dx + dy * dy

\* midpoint distance / width > 1.25, that is 4 (2d)^2 > 25 w^2.
FailsStance(b) ==
  4 * MidpointDist2x2(b) > 25 * Width(b.live_keypoints) * Width(b.live_keypoints)

PassesAllGates(b) ==
  ~FailsConfidence(b) /\ ~FailsFraming(b) /\ ~FailsStance(b)

InSeq(q, e) == \E i \in DOMAIN q : q[i] = e
Count(q, e) == Cardinality({i \in DOMAIN q : q[i] = e})

GateBundles == {Gate1Bundle, Gate2Bundle, Gate3Bundle}

\* C1: the gates run in the order confidence, framing, stance and the
\* response is the bundle of the first gate that fails: a frame that fails
\* the confidence gate gets gate 1's bundle whatever its width, a frame
\* that fails only from gate 2 on gets gate 2's, only gate 3 gets gate 3's.
C1_FirstFailingGateWins ==
  pc = "done" =>
    /\ FailsConfidence(body) => response = Gate1Bundle
    /\ ~FailsConfidence(body) /\ FailsFraming(body) => response = Gate2Bundle
    /\ ~FailsConfidence(body) /\ ~FailsFraming(body) /\ FailsStance(body)
         => response = Gate3Bundle

\* a frame that fails gate 1 (a weak wrist) and gate 2 (width 20) at once.
C1_Witness ==
  /\ pc = "done"
  /\ BothShoulders(body.live_keypoints) /\ Width(body.live_keypoints) = 20
  /\ ~Confident(body.live_keypoints, "left_wrist", 35)
  /\ response.Improvements.issue = "upper-body joints not confidently detected"

\* C2: gate 1 fires exactly when one of the four required joints is absent
\* or scored below 0.35 (no score counting as 0) or the shoulder width is
\* undefined; 0.35 itself passes; left_shoulder.score = 0.1 always gives
\* the "upper-body joints not confidently detected" issue.
C2_ConfidenceGate ==
  pc # "gate1" =>
    /\ (response = Gate1Bundle) <=> FailsConfidence(body)
    /\ (Listed(body.live_keypoints, "left_shoulder")
         /\ Entry(body.live_keypoints, "left_shoulder").score = 10)
         => response.Improvements.issue = "upper-body joints not confidently detected"

\* the four required joints scored exactly 0.35, and gate 1 passed.
C2_Witness ==
  /\ pc = "gate2"
  /\ \A n \in FourJoints :
       Listed(body.live_keypoints, n) /\ Entry(body.live_keypoints, n).score = 35

\* C3 as stated: width 200, gates 1 and 2 passed, the back wrist 300 units
\* from the back shoulder: gate 3 fires wherever the front wrist is.
C3_BackWristAlone ==
  (/\ pc = "done"
   /\ ~FailsConfidence(body) /\ ~FailsFraming(body)
   /\ Width(body.live_keypoints) = 200
   /\ BackWristDist2(body) = 300 * 300)
    => response = Gate3Bundle

\* C3 amended: width 200, gates 1 and 2 passed, the midpoint of the two
\* wrists 300 units (normalised 1.5) from the back shoulder: gate 3 fires
\* and the response is the "not in batting setup yet" bundle.
C3_MidpointFar ==
  (/\ pc = "done"
   /\ ~FailsConfidence(body) /\ ~FailsFraming(body)
   /\ Width(body.live_keypoints) = 200
   /\ MidpointDist2x2(body) = 600 * 600)
    => /\ response = Gate3Bundle
       /\ response.Improvements.issue = "not in batting setup yet"

\* the two wrists apart, their midpoint 300 units from the back shoulder.
C3_Witness ==
  /\ pc = "done"
  /\ ~FailsConfidence(body) /\ ~FailsFraming(body)
  /\ Width(body.live_keypoints) = 200
  /\ MidpointDist2x2(body) = 600 * 600
  /\ Entry(body.live_keypoints, "left_wrist") # Entry(body.live_keypoints, "right_wrist")
  /\ response = Gate3Bundle

\* C4: in one evaluation coach_rewrite and the model call inside it run at
\* most once, with no second attempt; exactly once when the three gates
\* pass, not at all when a gate fails; and no rule runs after a failed gate.
C4_OneRewriteCall ==
  /\ rewrite_calls <= 1 /\ model_calls <= 1
  /\ rules_run > 0 => PassesAllGates(body)
  /\ pc = "done" =>
       IF PassesAllGates(body)
         THEN rewrite_calls = 1 /\ model_calls = 1 /\ response \notin GateBundles
         ELSE rewrite_calls = 0 /\ model_calls = 0 /\ rules_run = 0
                /\ response \in GateBundles

\* an evaluation that ended after a failed model call.
C4_Witness ==
  pc = "done" /\ reply.kind = "raises" /\ rewrite_calls = 1 /\ model_calls = 1

\* C5: when coach_rewrite is called positives and improvements are both
\* non-empty, and a list no rule filled is exactly the one generic message.
C5_NonEmptyLists ==
  pc = "rewrite" =>
    /\ positives # <<>> /\ improvements # <<>>
    /\ RuleOutcome(Locals(body)).pos = <<>> => positives = <<DefaultPositive>>
    /\ RuleOutcome(Locals(body)).imp = <<>> => improvements = <<DefaultImprovement>>
    /\ InSeq(positives, DefaultPositive) => RuleOutcome(Locals(body)).pos = <<>>
    /\ InSeq(improvements, DefaultImprovement) => RuleOutcome(Locals(body)).imp = <<>>

\* no rule produced an improvement and the generic one stands in.
C5_Witness ==
  pc = "rewrite" /\ improvements = <<DefaultImprovement>> /\ Len(positives) > 1

\* C6: when the rewrite fails (the call raises or the reply is not the
\* expected JSON object) the response still has the tags "Good job" and
\* "One thing to work on" and its advice is the first raw positive and the
\* first raw improvement (the fixed strings for empty lists); every
\* rewritten response has two non-empty advice strings.
C6_RewriteFallback ==
  /\ (pc = "done" /\ rewrite_calls = 1) =>
       /\ response.Positives.issue = "Good job"
       /\ response.Improvements.issue = "One thing to work on"
       /\ response.Positives.advice # "" /\ response.Improvements.advice # ""
  /\ (pc = "done" /\ reply.kind \in {"raises", "empty", "not_json", "json_array"}) =>
       /\ response.Positives.advice = positives[1]
       /\ response.Improvements.advice = improvements[1]
  /\ pc = "rewrite" =>
       \A k \in {"raises", "empty", "not_json", "json_array"} :
         coach_rewrite(body.handedness, <<>>, <<>>, NotAnObject(k))
           = [positive |-> "Nice work - you're in a good setup.",
              improvement |-> "Hold that stance and say Start when you're ready."]

\* a reply that is not JSON, with more than one raw positive to pick from.
C6_Witness ==
  /\ pc = "done" /\ reply.kind = "not_json"
  /\ Len(positives) > 1 /\ Len(improvements) > 1
  /\ response.Positives.advice = positives[1]

\* C7: renaming left_* to right_* and back in both frames and switching
\* the handedness gives the same gate outcome and, past the gates, the
\* same raw positives and improvements in the same order.
SwapName(n) ==
  CASE n = "left_shoulder" -> "right_shoulder"
    [] n = "right_shoulder" -> "left_shoulder"
    [] n = "left_elbow" -> "right_elbow"
    [] n = "right_elbow" -> "left_elbow"
    [] n = "left_wrist" -> "right_wrist"
    [] n = "right_wrist" -> "left_wrist"

SwapSides(kps) == [i \in DOMAIN kps |-> [kps[i] EXCEPT !.name = SwapName(@)]]

Mirror(b) ==
  [handedness |-> IF LeftHanded(b) THEN "right" ELSE "left",
   live_keypoints |-> SwapSides(b.live_keypoints),
   ref_keypoints |-> SwapSides(b.ref_keypoints)]

C7_MirrorSymmetry ==
  /\ (pc = "done" /\ rewrite_calls = 0) =>
       /\ GateResult(Locals(Mirror(body))) # "pass"
       /\ response = GateBundle(GateResult(Locals(Mirror(body))))
  /\ pc = "fill" =>
       /\ GateResult(Locals(Mirror(body))) = "pass"
       /\ positives = RuleOutcome(Locals(Mirror(body))).pos
       /\ improvements = RuleOutcome(Locals(Mirror(body))).imp

\* a right-handed frame with tilted shoulders and its raw lists.
C7_Witness ==
  /\ pc = "fill" /\ body.handedness = "right"
  /\ Entry(body.live_keypoints, "left_shoulder").y
       # Entry(body.live_keypoints, "right_shoulder").y
  /\ Listed(body.live_keypoints, "left_elbow") /\ Listed(body.live_keypoints, "right_elbow")
  /\ Entry(body.live_keypoints, "left_elbow") # Entry(body.live_keypoints, "right_elbow")
  /\ improvements # <<>> /\ positives # <<>>

VisibilityMessage ==
  "Visibility: elbows not clearly visible - "
    \o "Try better lighting and keep both elbows in frame for more accurate feedback."

ElbowFails(b, n) == ~Confident(b.live_keypoints, n, 30)

\* C8 as stated: the visibility improvement is emitted exactly when both
\* elbows fail the 0.30 check.
C8_BothElbows ==
  pc = "fill" =>
    (InSeq(improvements, VisibilityMessage)
       <=> (ElbowFails(body, "left_elbow") /\ ElbowFails(body, "right_elbow")))

\* C8 amended: the visibility improvement is emitted (once, first in the
\* list) exactly when at least one elbow fails the 0.30 check.
C8_AnyElbow ==
  pc = "fill" =>
    /\ InSeq(improvements, VisibilityMessage)
         <=> (ElbowFails(body, "left_elbow") \/ ElbowFails(body, "right_elbow"))
    /\ InSeq(improvements, VisibilityMessage)
         => improvements[1] = VisibilityMessage /\ Count(improvements, VisibilityMessage) = 1

\* one elbow below 0.30, the other confident, and the improvement emitted.
C8_Witness ==
  /\ pc = "fill"
  /\ ElbowFails(body, "left_elbow") /\ ~ElbowFails(body, "right_elbow")
  /\ InSeq(improvements, VisibilityMessage)

ReferencePositive ==
  "Reference match: hands are at least as compact as the reference (nice)."
ReferenceImprovement ==
  "Reference Match: hands set farther than reference - "
    \o "Bring hands closer to the back shoulder to match the compact reference."

\* a reference frame that is there, has a width and has its four required
\* joints at 0.30 or more.
ValidReference(b) ==
  /\ b.ref_keypoints # <<>>
  /\ ~WidthUndefined(b.ref_keypoints)
  /\ \A n \in FourJoints : Confident(b.ref_keypoints, n, 30)

\* C9 as stated: with a valid reference the positive is emitted whenever
\* live is within 0.20 of ref or below it, the improvement only when live
\* exceeds ref by more than 0.20: exactly one of the two.
C9_ExactlyOne ==
  (pc = "fill" /\ ValidReference(body)) =>
    /\ InSeq(improvements, ReferenceImprovement)
         <=> DiffGT(live_h_dist(Locals(body)), ref_h_dist(Locals(body)), 1, 5)
    /\ InSeq(positives, ReferencePositive)
         <=> ~DiffGT(live_h_dist(Locals(body)), ref_h_dist(Locals(body)), 1, 5)

\* C9 amended: with a valid reference the improvement is emitted exactly
\* when live exceeds ref by more than 0.20 and the positive exactly when
\* live is below ref by more than 0.20; within 0.20 neither is emitted, so
\* at most one of the two is; without a valid reference neither is.
C9_AtMostOne ==
  pc = "fill" =>
    IF ValidReference(body)
      THEN /\ InSeq(improvements, ReferenceImprovement)
                <=> DiffGT(live_h_dist(Locals(body)), ref_h_dist(Locals(body)), 1, 5)
           /\ InSeq(positives, ReferencePositive)
                <=> DiffGT(ref_h_dist(Locals(body)), live_h_dist(Locals(body)), 1, 5)
           /\ ~(InSeq(improvements, ReferenceImprovement)
                  /\ InSeq(positives, ReferencePositive))
      ELSE /\ ~InSeq(improvements, ReferenceImprovement)
           /\ ~InSeq(positives, ReferencePositive)

\* a valid reference within 0.20 of the live frame: nothing is emitted.
C9_Witness ==
  /\ pc = "fill" /\ ValidReference(body)
  /\ ~AbsDiffGT(live_h_dist(Locals(body)), ref_h_dist(Locals(body)), 1, 5)
  /\ ~InSeq(improvements, ReferenceImprovement)
  /\ ~InSeq(positives, ReferencePositive)

SlotPositive == "Back elbow: looks in a good slot (not flying, not pinned)."
TooHigh ==
  "Back Elbow: back elbow too high (flying) - "
    \o "Lower the back elbow slightly into the slot. Too high can make you longer to the ball."
TooLow ==
  "Back Elbow: back elbow too low - "
    \o "Raise the back elbow a bit. Keep it relaxed and ready - not pinned down."

\* 100 * el_height * width
ElHeight100(b) ==
  100 * (Entry(b.live_keypoints, BackShoulder(b)).y - Entry(b.live_keypoints, BackElbow(b)).y)

GripPositive == "Grip: hands look reasonably compact/stacked (good for quickness)."
GripImprovement ==
  "Hands (Grip): hands too far apart - "
    \o "Bring your hands closer together (stacked grip). Compact hands = quicker to the ball."
HandSetPositive == "Hand set: hands are fairly close to the back shoulder (compact/quick)."
HandSetImprovement ==
  "Hand Set (Compact): hands set too far from back shoulder - "
    \o "Move your hands closer to your back shoulder. Compact hand set helps you get to the ball faster."
DriftPositive == "Hands: not drifting too far away from your torso line (good)."
DriftImprovement ==
  "Hand Set (Compact): hands drifting away from torso - "
    \o "Keep hands closer to your chest/back shoulder line for a quick, compact move."
BackArmPositive == "Back arm: comfortable bend (good for a quick/compact launch)."
BackArmStraight ==
  "Back Arm: back arm too straight - "
    \o "Relax the back arm; keep a soft bend so you can launch quickly."
BackArmCollapsed ==
  "Back Arm: back arm too collapsed - "
    \o "Open your back elbow slightly. Too tight can restrict a quick turn."
FrontArmPositive == "Front arm: not locked out (good)."
FrontArmLocked ==
  "Front Arm: front arm locked out - "
    \o "Soften the front elbow a bit. A relaxed front arm helps you stay compact."
FrontArmTucked ==
  "Front Arm: front arm too tucked - "
    \o "Give the front arm a little room. Don't let it collapse tight into the body."
TrianglePositive ==
  "Compact triangle: back elbow stays reasonably close (fast hands setup)."
TriangleImprovement ==
  "Compact Triangle: back elbow drifting away - "
    \o "Keep the back elbow closer to the body/shoulder. Compact triangle = faster hands."
LevelPositive == "Shoulders: fairly level (good foundation)."
LevelImprovement ==
  "Shoulders: shoulders not level - "
    \o "Try to keep shoulders more level. Big tilt can change your swing path and timing."

\* The messages of rule k (1 to 8), positive first.
RuleMessages(k) ==
  CASE k = 1 -> {GripPositive, GripImprovement}
    [] k = 2 -> {HandSetPositive, HandSetImprovement}
    [] k = 3 -> {DriftPositive, DriftImprovement}
    [] k = 4 -> {SlotPositive, TooHigh, TooLow}
    [] k = 5 -> {BackArmPositive, BackArmStraight, BackArmCollapsed}
    [] k = 6 -> {FrontArmPositive, FrontArmLocked, FrontArmTucked}
    [] k = 7 -> {TrianglePositive, TriangleImprovement}
    [] k = 8 -> {LevelPositive, LevelImprovement}

\* how many entries of the two lists are messages of rule k.
Emitted(k, pos, imp) ==
  Cardinality({i \in DOMAIN pos : pos[i] \in RuleMessages(k)})
    + Cardinality({i \in DOMAIN imp : imp[i] \in RuleMessages(k)})

\* the entries of q that come from the rules that need no elbow.
ElbowFree(q) ==
  SelectSeq(q, LAMBDA m : m \in RuleMessages(1) \cup RuleMessages(2)
                                 \cup RuleMessages(3) \cup RuleMessages(8))

\* the request with both elbows in the frame and fully confident (an
\* elbow that was absent is put at (140, 120)).
ConfidentElbows(b) ==
  [b EXCEPT !.live_keypoints =
     SelectSeq(b.live_keypoints, LAMBDA k : k.name \notin {"left_elbow", "right_elbow"})
       \o << [name |-> "left_elbow",
              x |-> IF Listed(b.live_keypoints, "left_elbow")
                      THEN Entry(b.live_keypoints, "left_elbow").x ELSE 140,
              y |-> IF Listed(b.live_keypoints, "left_elbow")
                      THEN Entry(b.live_keypoints, "left_elbow").y ELSE 120,
              tx |-> 0, ty |-> 0,
              score |-> 100],
             [name |-> "right_elbow",
              x |-> IF Listed(b.live_keypoints, "right_elbow")
                      THEN Entry(b.live_keypoints, "right_elbow").x ELSE 140,
              y |-> IF Listed(b.live_keypoints, "right_elbow")
                      THEN Entry(b.live_keypoints, "right_elbow").y ELSE 120,
              tx |-> 0, ty |-> 0,
              score |-> 100] >>]

\* C11: past the gates a back elbow that is absent or below 0.30 silences
\* rules 4, 5 and 7, a front elbow that is absent or below 0.30 silences
\* rule 6, rules 1, 2, 3 and 8 emit what they emit with confident elbows,
\* and the evaluation ends with the rewritten bundle, not a gate's.
C11_PartialVisibility ==
  /\ pc = "fill" =>
       /\ ElbowFails(body, BackElbow(body)) =>
            /\ Emitted(4, positives, improvements) = 0
            /\ Emitted(5, positives, improvements) = 0
            /\ Emitted(7, positives, improvements) = 0
       /\ ElbowFails(body, FrontElbow(body)) =>
            Emitted(6, positives, improvements) = 0
       /\ (ElbowFails(body, BackElbow(body)) \/ ElbowFails(body, FrontElbow(body))) =>
            /\ ElbowFree(positives)
                 = ElbowFree(RuleOutcome(Locals(ConfidentElbows(body))).pos)
            /\ ElbowFree(improvements)
                 = ElbowFree(RuleOutcome(Locals(ConfidentElbows(body))).imp)
            /\ Len(ElbowFree(positives)) + Len(ElbowFree(improvements)) = 4
  /\ (/\ pc = "done" /\ PassesAllGates(body)
      /\ (ElbowFails(body, BackElbow(body)) \/ ElbowFails(body, FrontElbow(body)))) =>
       /\ response.Positives.issue = "Good job"
       /\ response.Improvements.issue = "One thing to work on"

\* the back elbow in the frame at 0.29, the front elbow confident: rule 6
\* speaks, rules 4, 5 and 7 do not.
C11_Witness ==
  /\ pc = "fill"
  /\ Listed(body.live_keypoints, BackElbow(body))
  /\ Entry(body.live_keypoints, BackElbow(body)).score = 29
  /\ ~ElbowFails(body, FrontElbow(body))
  /\ Emitted(6, positives, improvements) = 1
  /\ Emitted(7, positives, improvements) = 0
  /\ Len(ElbowFree(improvements)) > 0 /\ Len(ElbowFree(positives)) > 0

\* a ray of the elbow angle of arm (sh, el, wr) has no length.
Degenerate(b, sh, el, wr) ==
  LET k == b.live_keypoints
  IN \/ /\ Entry(k, el).x = Entry(k, sh).x /\ Entry(k, el).y = Entry(k, sh).y
        /\ Entry(k, el).tx = Entry(k, sh).tx /\ Entry(k, el).ty = Entry(k, sh).ty
     \/ /\ Entry(k, el).x = Entry(k, wr).x /\ Entry(k, el).y = Entry(k, wr).y
        /\ Entry(k, el).tx = Entry(k, wr).tx /\ Entry(k, el).ty = Entry(k, wr).ty

\* C12: analyze_pose never raises: no evaluation ends in an exception.
C12_NeverRaises == pc # "raised"

\* The part of C12 that the code keeps: a back elbow that coincides with
\* the back shoulder or the back wrist gives the 0.0 angle, read as "too
\* collapsed", and the evaluation goes on.
C12_DegenerateIsSentinel ==
  (/\ pc \in {"fill", "raised"}
   /\ ~ElbowFails(body, BackElbow(body))
   /\ Degenerate(body, BackShoulder(body), BackElbow(body), BackWrist(body))) =>
    pc = "fill" /\ InSeq(improvements, BackArmCollapsed)

\* a back elbow on the back shoulder, listed twice, judged "too collapsed".
C12_DegenerateWitness ==
  /\ pc = "fill"
  /\ Len(body.live_keypoints) = 7
  /\ InSeq(improvements, BackArmCollapsed)
  /\ Degenerate(body, BackShoulder(body), BackElbow(body), BackWrist(body))

\* an evaluation that ended in the ZeroDivisionError of the back-arm rule.
C12_RaisedWitness == pc = "raised" /\ rules_run = 6

\* both shoulders are in the list, at the same x.
SameShoulderX(kps) ==
  /\ BothShoulders(kps)
  /\ Entry(kps, "right_shoulder").x = Entry(kps, "left_shoulder").x
  /\ Entry(kps, "right_shoulder").tx = Entry(kps, "left_shoulder").tx

\* C13: a live frame whose shoulders share their x ends at gate 1 with the
\* confidence bundle, whatever its scores, with no rule run and no rewrite;
\* a reference frame whose shoulders share their x gets no observation
\* from rule 9.
C13_ZeroWidth ==
  /\ (pc # "gate1" /\ SameShoulderX(body.live_keypoints)) =>
       /\ pc = "done"
       /\ response = Gate1Bundle
       /\ rules_run = 0 /\ rewrite_calls = 0
  /\ (pc = "fill" /\ SameShoulderX(body.ref_keypoints)) =>
       /\ ~InSeq(positives, ReferencePositive)
       /\ ~InSeq(improvements, ReferenceImprovement)

\* six confident joints, the two shoulders at the same x: gate 1's bundle.
C13_Witness ==
  /\ pc = "done"
  /\ response = Gate1Bundle
  /\ SameShoulderX(body.live_keypoints)
  /\ \A n \in FourJoints : Confident(body.live_keypoints, n, 35)

\* a reference frame with confident joints and zero width, past the gates.
C13_ReferenceCase ==
  /\ pc = "fill"
  /\ SameShoulderX(body.ref_keypoints)
  /\ \A n \in FourJoints : Confident(body.ref_keypoints, n, 30)

\* rule k (1 to 8) has the joints it needs: rules 4, 5 and 7 a back elbow
\* at 0.30 or more, rule 6 a front elbow at 0.30 or more.
Applicable(k, b) ==
  CASE k \in {4, 5, 7} -> ~ElbowFails(b, BackElbow(b))
    [] k = 6 -> ~ElbowFails(b, FrontElbow(b))
    [] OTHER -> TRUE

RulePositive(k) ==
  CASE k = 1 -> GripPositive
    [] k = 2 -> HandSetPositive
    [] k = 3 -> DriftPositive
    [] k = 4 -> SlotPositive
    [] k = 5 -> BackArmPositive
    [] k = 6 -> FrontArmPositive
    [] k = 7 -> TrianglePositive
    [] k = 8 -> LevelPositive

NumApplicable(b) == Cardinality({k \in 1..8 : Applicable(k, b)})

====
